---- MODULE Spec2Model ----
(***************************************************************************)
(* Hash partitioning of a columnar table (cpp/src/hash/hashing.cu).        *)
(*                                                                         *)
(* The module models one invocation of detail::hash_partition: the host    *)
(* orchestrator (hash_partition, hash_partition_table and the per-column   *)
(* move_to_output_buffer_dispatcher), the stream the host enqueues device  *)
(* work on, and the two kernels compute_row_partition_numbers and          *)
(* move_to_output_buffer at the granularity of one thread step (one row,   *)
(* one histogram bucket, one copied cell), with __syncthreads() as guards. *)
(*                                                                         *)
(* A second specification, HashSpec, models one invocation of              *)
(* detail::hash: the output column, the early return, the check of the     *)
(* seeds and the thrust::tabulate it enqueues.                             *)
(*                                                                         *)
(* The launch geometry is scaled down: BLOCK_SIZE, ROWS_PER_THREAD and     *)
(* nthreads_partition are the source's constants with small values, so     *)
(* that a table of MaxRows rows needs two blocks and a thread strides over *)
(* two rows.  ELEMENT_PER_BLOCK keeps the source's value.  The scatter     *)
(* kernel therefore covers ELEMENT_PER_BLOCK * BLOCK_SIZE = 4 partitions   *)
(* here, where the source covers 2 * 512 = 1024.                           *)
(***************************************************************************)
EXTENDS Integers, Sequences, FiniteSets, TLC

(* ------------------------- program constants -------------------------- *)

BLOCK_SIZE == 2

ROWS_PER_THREAD == 2

ELEMENT_PER_BLOCK == 2

nthreads_partition == 2

(* ------------------------------ bounds -------------------------------- *)

\* rows of the input table: 0..MaxRows
MaxRows == 5

\* rows of an input table that has a null mask or a non-fixed-width column
MaxSpecialRows == 2

\* num_partitions ranges over -1..MaxPartitions
MaxPartitions == 6

\* the key cells of a table repeat with period KeyPeriod: the cells of the
\* first KeyPeriod rows are drawn freely, row i holds the cell of row
\* i % KeyPeriod
KeyPeriod == 3

\* width of a hash value in bits (hash_value_type is 32 bits in the source)
HashBits == 8

\* an uninitialised shared-memory word reads as 0 or as MaxGarbage
MaxGarbage == 2

(* ------------------------------ values -------------------------------- *)

\* what an uninitialised cell of device or shared memory holds when the
\* model does not enumerate its value: a value no input cell has
Uninit == 0 - 1

\* the input table has two columns: column 0 holds the drawn key cells,
\* column 1 a payload that differs from row to row
Cols == {0, 1}

NumCols == Cardinality(Cols)

\* the values a cell of column 0 is drawn from
KeyVals == {0, 1}

HashSpace == 2 ^ HashBits

\* the sequences of key-column indices a caller passes
KeyChoices == {<< >>, <<0>>, <<0, 1>>}

VARIABLES
  \* the call's arguments
  input,                 \* table_view: [num_rows, cols: [Cols -> column_view]]
  columns_to_hash,       \* sequence of column indices
  num_partitions,        \* int
  initial_hash,          \* detail::hash: the seeds, one per column or none
  hash_output,           \* detail::hash: the column returned
  \* host
  pc,                    \* position of the host thread
  result,                \* "none" | "empty" | "ok" | "error"
  error,                 \* the message of the exception thrown, or "none"
  has_nulls_path,        \* the template argument of hash_partition_table
  grid_size,
  partition_offsets,     \* the host vector (a sequence, length as allocated)
  output_cols,           \* [Cols -> column]: [made, type, size, has_mask]
  allocated,             \* device allocations made so far
  routing_live,          \* the routing tables are allocated and not released
  launched,              \* device work enqueued so far, in order
  \* device
  stream,                \* work enqueued and not yet started
  running,               \* the operation the device executes
  th,                    \* [<<block, thread>> -> thread state]
  shm,                   \* [block -> shared memory]
  fault,                 \* an out-of-bounds access has happened
  row_partition_numbers,
  row_partition_offset,
  block_partition_sizes,
  scanned_block_partition_sizes,
  global_partition_sizes,
  output_buf             \* [col -> [row -> cell]], the output column buffers

argVars == <<input, columns_to_hash, num_partitions>>

hashVars == <<initial_hash, hash_output>>

hostVars == <<pc, result, error, has_nulls_path, grid_size,
              partition_offsets, output_cols, allocated, routing_live, launched>>

routingVars == <<row_partition_numbers, row_partition_offset,
                 block_partition_sizes, scanned_block_partition_sizes,
                 global_partition_sizes>>

kernelVars == <<running, th, shm, fault>>

vars == <<argVars, hashVars, hostVars, stream, kernelVars, routingVars, output_buf>>

(* ------------------------------ input --------------------------------- *)

Rows == 0..(input.num_rows - 1)

\* a column of the input: col 0 holds the drawn key cells, the other
\* columns hold cells that differ from row to row
Column(R, c, kd, typ, mask, val) ==
  [type     |-> typ,
   has_mask |-> mask,
   valid    |-> val,
   data     |-> [i \in 0..(R - 1) |-> IF c = 0 THEN kd[i] ELSE Cardinality(KeyVals) + i]]

FixedType(c) == IF c = 0 THEN "INT32" ELSE "INT64"

AllValid(R) == [i \in 0..(R - 1) |-> TRUE]

\* every column fixed-width and without a null mask
PlainTable(R, kd) ==
  [num_rows |-> R,
   cols |-> [c \in Cols |-> Column(R, c, kd, FixedType(c), FALSE, AllValid(R))]]

\* column sc is of a non-fixed-width type
StringTable(R, kd, sc) ==
  [num_rows |-> R,
   cols |-> [c \in Cols |->
     Column(R, c, kd, IF c = sc THEN "STRING" ELSE FixedType(c), FALSE, AllValid(R))]]

\* column sc has a null mask with validity bits val
NullableTable(R, kd, sc, val) ==
  [num_rows |-> R,
   cols |-> [c \in Cols |->
     Column(R, c, kd, FixedType(c), c = sc, IF c = sc THEN val ELSE AllValid(R))]]

\* the key columns of R rows
KeyColumns(R) ==
  {[i \in 0..(R - 1) |-> pat[i % KeyPeriod]] : pat \in [0..(KeyPeriod - 1) -> KeyVals]}

InputTables ==
  UNION {
    {PlainTable(R, kd) : kd \in KeyColumns(R)}
    : R \in 0..MaxRows }
  \cup
  UNION {
    UNION {
      {StringTable(R, kd, sc) : sc \in Cols}
      \cup
      {NullableTable(R, kd, sc, val) : sc \in Cols, val \in [0..(R - 1) -> BOOLEAN]}
      : kd \in KeyColumns(R) }
    : R \in 0..MaxSpecialRows }

is_fixed_width(type) == type # "STRING"

(* ------------------- row hasher and partitioners ---------------------- *)

RECURSIVE BitAnd(_, _)
BitAnd(a, b) ==
  IF a = 0 \/ b = 0 THEN 0
  ELSE (a % 2) * (b % 2) + 2 * BitAnd(a \div 2, b \div 2)

MurmurHash3_32(v) == (v * 29 + 9) % HashSpace

hash_combine(lhs, rhs) ==
  (lhs + rhs + 185 + lhs * 64 + lhs \div 4) % HashSpace

\* a null cell hashes to std::numeric_limits<hash_value_type>::max()
element_hasher(nullable, c, i) ==
  IF nullable /\ input.cols[c].has_mask /\ ~input.cols[c].valid[i]
    THEN HashSpace - 1
    ELSE MurmurHash3_32(input.cols[c].data[i])

RECURSIVE HashColumns(_, _, _, _)
HashColumns(nullable, keys, k, i) ==
  IF k = 1 THEN element_hasher(nullable, keys[1], i)
  ELSE hash_combine(HashColumns(nullable, keys, k - 1, i),
                    element_hasher(nullable, keys[k], i))

row_hasher(nullable, i) ==
  HashColumns(nullable, columns_to_hash, Len(columns_to_hash), i)

has_nulls(keys) == \E k \in 1..Len(keys) : input.cols[keys[k]].has_mask

\* the conversion of a size_type operand to hash_value_type: the usual
\* arithmetic conversions of the operators % and & with an unsigned left side
to_unsigned(x) == x % HashSpace

\* the conversion of the unsigned result to the size_type the operators return
to_size_type(x) == IF x >= HashSpace \div 2 THEN x - HashSpace ELSE x


\* modulo_partitioner over a signed hash value: the remainder of a negative
\* hash is negative
modulo_partitioner_SignedHash(divisor, hash_value) ==
  LET h == to_size_type(hash_value)
  IN IF h < 0 THEN 0 - ((0 - h) % divisor) ELSE h % divisor

modulo_partitioner(divisor, hash_value) ==
  to_size_type(hash_value % to_unsigned(divisor))


\* is_power_two testing number & (number + 1)
is_power_two_PlusOne(number) ==
  IF number <= 0 THEN number = 0 ELSE BitAnd(number, number + 1) = 0

is_power_two(number) ==
  IF number <= 0 THEN number = 0 ELSE BitAnd(number, number - 1) = 0

\* bitwise_partitioner with num_partitions itself as the mask
bitwise_partitioner_FullMask(n, hash_value) ==
  to_size_type(BitAnd(hash_value, to_unsigned(n)))

bitwise_partitioner(n, hash_value) ==
  to_size_type(BitAnd(hash_value, to_unsigned(n - 1)))

the_partitioner(bitwise, hash_value) ==
  IF bitwise THEN bitwise_partitioner(num_partitions, hash_value)
  ELSE modulo_partitioner(num_partitions, hash_value)

\* the partition the kernel computes for row i
RowPartition(bitwise, i) == the_partitioner(bitwise, row_hasher(has_nulls_path, i))

(* ------------------------------- Init --------------------------------- *)

Init ==
  /\ input \in InputTables
  /\ columns_to_hash \in KeyChoices
  /\ num_partitions \in (0 - 1)..MaxPartitions
  /\ initial_hash = << >>
  /\ hash_output = [made |-> FALSE]
  /\ pc = "call"
  /\ result = "none"
  /\ error = "none"
  /\ has_nulls_path = FALSE
  /\ grid_size = 0
  /\ partition_offsets = << >>
  /\ output_cols = [c \in Cols |-> [made |-> FALSE]]
  /\ allocated = {}
  /\ routing_live = FALSE
  /\ launched = << >>
  /\ stream = << >>
  /\ running = [op |-> "idle"]
  /\ th = << >>
  /\ shm = << >>
  /\ fault = FALSE
  /\ row_partition_numbers = << >>
  /\ row_partition_offset = << >>
  /\ block_partition_sizes = << >>
  /\ scanned_block_partition_sizes = << >>
  /\ global_partition_sizes = << >>
  /\ output_buf = [c \in Cols |-> << >>]

(* ------------------------- host: orchestrator ------------------------- *)

rows_per_block == BLOCK_SIZE * ROWS_PER_THREAD

div_rounding_up_safe(dividend, divisor) ==
  dividend \div divisor + (IF dividend % divisor = 0 THEN 0 ELSE 1)

Blocks == 0..(grid_size - 1)

Threads == 0..(BLOCK_SIZE - 1)

Partitions == 0..(num_partitions - 1)

\* a device allocation: a routing table, or the output buffer of a column
Buffer(name, c) == [name |-> name, col |-> c]

RoutingTables ==
  {Buffer(name, Uninit) : name \in
     {"row_partition_numbers", "block_partition_sizes",
      "scanned_block_partition_sizes", "global_partition_sizes",
      "row_partition_offset"}}

\* ReturnsEmpty without the check for a table with no rows
ReturnsEmpty_NoRowCheck ==
  num_partitions <= 0 \/ Len(columns_to_hash) = 0

\* the early return of detail::hash_partition
ReturnsEmpty ==
  num_partitions <= 0 \/ input.num_rows = 0 \/ Len(columns_to_hash) = 0

\* experimental::empty_like: the columns of the input with no rows
empty_like(t) ==
  [c \in Cols |->
    [made |-> TRUE, type |-> t.cols[c].type, size |-> 0, has_mask |-> FALSE]]

\* detail::hash_partition (lines 457-471): the early return, or the choice
\* of the template argument of hash_partition_table
HashPartition ==
  /\ pc = "call"
  /\ IF ReturnsEmpty
       THEN /\ pc' = "done"
            /\ result' = "empty"
            /\ output_cols' = empty_like(input)
            /\ has_nulls_path' = has_nulls_path
       ELSE /\ pc' = "build"
            /\ result' = result
            /\ output_cols' = output_cols
            /\ has_nulls_path' = has_nulls(columns_to_hash)
  /\ UNCHANGED <<argVars, hashVars, error, grid_size, partition_offsets, allocated,
                 routing_live, launched, stream, kernelVars, routingVars, output_buf>>

\* the device work hash_partition_table enqueues before it copies the
\* offsets: compute_row_partition_numbers with one of the partitioners, then
\* the two exclusive scans
RoutingWork_ScanFirst ==
  << [op |-> "scan_block"],
     [op |-> "hist", bitwise |-> is_power_two(num_partitions)],
     [op |-> "scan_global"] >>

RoutingWork ==
  << [op |-> "hist", bitwise |-> is_power_two(num_partitions)],
     [op |-> "scan_block"],
     [op |-> "scan_global"] >>

\* hash_partition_table, lines 329-402: the grid size, the five routing
\* tables (a device_vector value-initialises its elements), the launch of the
\* histogram kernel and of the two scans.  The host does not wait for the
\* device in these lines
BuildRouting ==
  /\ pc = "build"
  /\ pc' = "memcpy"
  /\ grid_size' = div_rounding_up_safe(input.num_rows, rows_per_block)
  /\ row_partition_numbers' = [i \in Rows |-> 0]
  /\ row_partition_offset' = [i \in Rows |-> 0]
  /\ block_partition_sizes' = [k \in 0..(grid_size' * num_partitions - 1) |-> 0]
  /\ scanned_block_partition_sizes' = [k \in 0..(grid_size' * num_partitions - 1) |-> 0]
  /\ global_partition_sizes' = [p \in Partitions |-> 0]
  /\ allocated' = allocated \cup RoutingTables
  /\ routing_live' = TRUE
  /\ stream' = stream \o RoutingWork
  /\ launched' = launched \o RoutingWork
  /\ UNCHANGED <<argVars, hashVars, result, error, has_nulls_path, partition_offsets,
                 output_cols, kernelVars, output_buf>>

StreamDrained == stream = << >> /\ running.op = "idle"

\* CopyOffsetsToHost that returns before the stream has reached the copy
CopyOffsetsToHost_NoWait ==
  /\ pc = "memcpy"
  /\ partition_offsets' = [p \in 1..num_partitions |-> global_partition_sizes[p - 1]]
  /\ pc' = "scatter"
  /\ UNCHANGED <<argVars, hashVars, result, error, has_nulls_path, grid_size, output_cols,
                 allocated, routing_live, launched, stream, kernelVars,
                 routingVars, output_buf>>

\* lines 404-411, the host vector and cudaMemcpyAsync into it: the
\* destination is pageable host memory, so the call returns once the copy,
\* which is ordered after the work enqueued before it, has completed
CopyOffsetsToHost ==
  /\ pc = "memcpy"
  /\ StreamDrained
  /\ partition_offsets' = [p \in 1..num_partitions |-> global_partition_sizes[p - 1]]
  /\ pc' = "scatter"
  /\ UNCHANGED <<argVars, hashVars, result, error, has_nulls_path, grid_size, output_cols,
                 allocated, routing_live, launched, stream, kernelVars,
                 routingVars, output_buf>>

\* DispatchError without the check of the null mask
DispatchError_NoMaskCheck(column) ==
  IF ~is_fixed_width(column.type) THEN "non-fixed width types unsupported"
  ELSE "none"

\* what move_to_output_buffer_dispatcher throws for a column, or "none"
DispatchError(column) ==
  IF ~is_fixed_width(column.type) THEN "non-fixed width types unsupported"
  ELSE IF column.has_mask THEN "null input column unsupported"
  ELSE "none"

\* OutputColumn with the type of the column fixed, not taken from the input
OutputColumn_Int32(column) ==
  [made |-> TRUE, type |-> "INT32", size |-> input.num_rows, has_mask |-> FALSE]

\* the column the dispatcher returns: input.type(), input.size(), no mask
OutputColumn(column) ==
  [made |-> TRUE, type |-> column.type, size |-> input.num_rows, has_mask |-> FALSE]

OutputBuffer(c) == Buffer("output", c)

\* the columns std::transform dispatches without an exception: all of them,
\* or those before the first column the dispatcher throws for
FailingColumns == {c \in Cols : DispatchError(input.cols[c]) # "none"}

FirstFailing == CHOOSE c \in FailingColumns : \A d \in FailingColumns : c <= d

DispatchedColumns ==
  IF FailingColumns = {} THEN Cols ELSE {c \in Cols : c < FirstFailing}

ScatterWork ==
  [k \in 1..Cardinality(DispatchedColumns) |-> [op |-> "scatter", col |-> k - 1]]

\* lines 413-435: std::transform over the input columns, each dispatched
\* column getting an output buffer and a launch of move_to_output_buffer,
\* then the return of the table and of partition_offsets.  An exception of
\* the dispatcher unwinds hash_partition_table: the columns made so far and
\* the host vector are destroyed.  Either way the routing tables go out of
\* scope.  The host does not wait for the device in these lines
ScatterColumns ==
  /\ pc = "scatter"
  /\ pc' = "done"
  /\ output_buf' = [c \in Cols |->
       IF c \in DispatchedColumns THEN [i \in Rows |-> Uninit] ELSE output_buf[c]]
  /\ allocated' = allocated \cup {OutputBuffer(c) : c \in DispatchedColumns}
  /\ stream' = stream \o ScatterWork
  /\ launched' = launched \o ScatterWork
  /\ routing_live' = FALSE
  /\ IF FailingColumns = {}
       THEN /\ result' = "ok"
            /\ output_cols' = [c \in Cols |-> OutputColumn(input.cols[c])]
            /\ UNCHANGED <<error, partition_offsets>>
       ELSE /\ result' = "error"
            /\ error' = DispatchError(input.cols[FirstFailing])
            /\ output_cols' = [c \in Cols |-> [made |-> FALSE]]
            /\ partition_offsets' = << >>
  /\ UNCHANGED <<argVars, hashVars, has_nulls_path, grid_size, kernelVars, routingVars>>

(* ------------------------------ device -------------------------------- *)

ThreadIds == Blocks \X Threads

BlockThreads(b) == {<<b, t>> : t \in Threads}

\* partitions the prefix sum of move_to_output_buffer covers
ScanCapacity == ELEMENT_PER_BLOCK * BLOCK_SIZE

RECURSIVE SumTo(_, _)
\* f[0] + ... + f[n - 1]
SumTo(f, n) == IF n <= 0 THEN 0 ELSE SumTo(f, n - 1) + f[n - 1]

\* exclusive_scan with the element itself added: an inclusive scan
inclusive_scan(f) == [k \in DOMAIN f |-> SumTo(f, k + 1)]

\* thrust::exclusive_scan over a vector
exclusive_scan(f) == [k \in DOMAIN f |-> SumTo(f, k)]

\* HistStart with row_number = threadIdx.x: the offset of the block is missing
HistStart_NoBlockOffset(op) ==
  /\ th' = [id \in ThreadIds |->
             [pc |-> "init", row |-> id[2], part |-> id[2]]]
  /\ shm' = [b \in Blocks |-> [sizes |-> [p \in Partitions |-> Uninit]]]

\* compute_row_partition_numbers at its start: row_number of each thread, the
\* shared histogram not initialised
HistStart(op) ==
  /\ th' = [id \in ThreadIds |->
             [pc |-> "init", row |-> id[2] + id[1] * BLOCK_SIZE, part |-> id[2]]]
  /\ shm' = [b \in Blocks |-> [sizes |-> [p \in Partitions |-> Uninit]]]

\* the shared memory of a block of move_to_output_buffer at its start: the
\* words of partition_offset_shared the block never writes hold garbage g
ScatterShared(g) ==
  [block_output |-> [k \in 0..(rows_per_block - 1) |-> Uninit],
   pos          |-> [k \in 0..num_partitions |-> IF k > ScanCapacity THEN g ELSE Uninit],
   written      |-> {},
   glob         |-> [p \in Partitions |-> Uninit]]


\* ScatterStart with row_number = threadIdx.x + blockIdx.x * BLOCK_SIZE *
\* ROWS_PER_THREAD: each block starts at a contiguous chunk of its own
ScatterStart_BlockedRows(op) ==
  /\ th' = [id \in ThreadIds |->
             [pc |-> "load", row |-> id[2] + id[1] * rows_per_block,
              part |-> 0, off |-> 0,
              temp |-> [i \in 0..(ELEMENT_PER_BLOCK - 1) |-> Uninit]]]
  /\ \E g \in {0, MaxGarbage} :
       /\ num_partitions <= ScanCapacity => g = 0
       /\ shm' = [b \in Blocks |-> ScatterShared(g)]

ScatterStart(op) ==
  /\ th' = [id \in ThreadIds |->
             [pc |-> "load", row |-> id[2] + id[1] * BLOCK_SIZE,
              part |-> 0, off |-> 0,
              temp |-> [i \in 0..(ELEMENT_PER_BLOCK - 1) |-> Uninit]]]
  /\ \E g \in {0, MaxGarbage} :
       /\ num_partitions <= ScanCapacity => g = 0
       /\ shm' = [b \in Blocks |-> ScatterShared(g)]

\* the device takes the next operation of the stream
DeviceStart ==
  /\ running.op = "idle"
  /\ stream # << >>
  /\ running' = Head(stream)
  /\ stream' = Tail(stream)
  /\ CASE Head(stream).op = "hist" -> HistStart(Head(stream))
       [] Head(stream).op = "scatter" -> ScatterStart(Head(stream))
       [] OTHER -> UNCHANGED <<th, shm>>
  /\ UNCHANGED <<argVars, hashVars, hostVars, fault, routingVars, output_buf>>

\* exclusive scan of block_partition_sizes into scanned_block_partition_sizes
DeviceBlockScan ==
  /\ running.op = "scan_block"
  /\ scanned_block_partition_sizes' = exclusive_scan(block_partition_sizes)
  /\ running' = [op |-> "idle"]
  /\ UNCHANGED <<argVars, hashVars, hostVars, stream, th, shm, fault, row_partition_numbers,
                 row_partition_offset, block_partition_sizes,
                 global_partition_sizes, output_buf>>

\* exclusive scan of global_partition_sizes in place
DeviceGlobalScan ==
  /\ running.op = "scan_global"
  /\ global_partition_sizes' = exclusive_scan(global_partition_sizes)
  /\ running' = [op |-> "idle"]
  /\ UNCHANGED <<argVars, hashVars, hostVars, stream, th, shm, fault, row_partition_numbers,
                 row_partition_offset, block_partition_sizes,
                 scanned_block_partition_sizes, output_buf>>

\* a kernel ends when every thread of its grid has returned
KernelEnd ==
  /\ running.op \in {"hist", "scatter"}
  /\ \A id \in ThreadIds : th[id].pc = "done"
  /\ running' = [op |-> "idle"]
  /\ th' = << >>
  /\ shm' = << >>
  /\ UNCHANGED <<argVars, hashVars, hostVars, stream, fault, routingVars, output_buf>>

(* ------------------ compute_row_partition_numbers --------------------- *)

\* a barrier that lets every thread through at once
Arrived_NoBarrier(b, before) == TRUE

\* every thread of block b has passed the places `before`
Arrived(b, before) == \A id \in BlockThreads(b) : th[id].pc \notin before

\* p, p + step, p + 2 step, ... below n
Strided(p, step, n) == {q \in p..(n - 1) : (q - p) % step = 0}

\* atomicAdd that returns the word's value after the addition
atomicAdd_ReturnsNew(mem, k, v) ==
  [old |-> mem[k] + v, mem |-> [mem EXCEPT ![k] = @ + v]]

\* atomicAdd(&mem[k], v): the word's prior value and the memory afterwards,
\* in one step
atomicAdd(mem, k, v) ==
  [old |-> mem[k], mem |-> [mem EXCEPT ![k] = @ + v]]

\* write_location with the blocks' histograms laid out block after block
write_location_BlockMajor(partition_number, b) == b * num_partitions + partition_number

\* where block b records its size of a partition in block_partition_sizes
write_location(partition_number, b) == partition_number * grid_size + b

\* where a thread goes after its last row: the flush loop, if it has a bucket
HistAfterRows(s, t) ==
  [s EXCEPT !.pc = IF t < num_partitions THEN "flush" ELSE "done"]

\* lines 123-131: the thread zeroes its buckets of the shared histogram
HistInit(b, t) ==
  /\ running.op = "hist"
  /\ th[<<b, t>>].pc = "init"
  /\ shm' = [shm EXCEPT ![b].sizes =
              [p \in Partitions |->
                IF p \in Strided(t, BLOCK_SIZE, num_partitions) THEN 0 ELSE @[p]]]
  /\ th' = [th EXCEPT ![<<b, t>>] =
             IF @.row < input.num_rows THEN [@ EXCEPT !.pc = "rows"]
             ELSE HistAfterRows(@, t)]
  /\ UNCHANGED <<argVars, hashVars, hostVars, stream, running, fault, routingVars, output_buf>>

\* lines 136-148: one row of the grid-stride loop
HistRow(b, t) ==
  /\ running.op = "hist"
  /\ th[<<b, t>>].pc = "rows"
  /\ Arrived(b, {"init"})
  /\ LET s == th[<<b, t>>]
         row_number == s.row
         partition_number == RowPartition(running.bitwise, row_number)
         next == row_number + BLOCK_SIZE * grid_size
         added == atomicAdd(shm[b].sizes, partition_number, 1)
     IN /\ IF partition_number \in Partitions
             THEN /\ row_partition_numbers' =
                       [row_partition_numbers EXCEPT ![row_number] = partition_number]
                  /\ row_partition_offset' =
                       [row_partition_offset EXCEPT ![row_number] = added.old]
                  /\ shm' = [shm EXCEPT ![b].sizes = added.mem]
                  /\ fault' = fault
             ELSE /\ fault' = TRUE
                  /\ UNCHANGED <<row_partition_numbers, row_partition_offset, shm>>
        /\ th' = [th EXCEPT ![<<b, t>>] =
                   IF next < input.num_rows THEN [s EXCEPT !.row = next]
                   ELSE HistAfterRows(s, t)]
  /\ UNCHANGED <<argVars, hashVars, hostVars, stream, running, block_partition_sizes,
                 scanned_block_partition_sizes, global_partition_sizes, output_buf>>

\* lines 152-165: one bucket of the flush loop
HistFlush(b, t) ==
  /\ running.op = "hist"
  /\ th[<<b, t>>].pc = "flush"
  /\ Arrived(b, {"init", "rows"})
  /\ LET s == th[<<b, t>>]
         partition_number == s.part
         block_partition_size == shm[b].sizes[partition_number]
         next == partition_number + BLOCK_SIZE
     IN /\ global_partition_sizes' =
             atomicAdd(global_partition_sizes, partition_number, block_partition_size).mem
        /\ block_partition_sizes' =
             [block_partition_sizes EXCEPT
                ![write_location(partition_number, b)] = block_partition_size]
        /\ th' = [th EXCEPT ![<<b, t>>] =
                   IF next < num_partitions THEN [s EXCEPT !.part = next]
                   ELSE [s EXCEPT !.pc = "done"]]
  /\ UNCHANGED <<argVars, hashVars, hostVars, stream, running, shm, fault,
                 row_partition_numbers, row_partition_offset,
                 scanned_block_partition_sizes, output_buf>>

(* ----------------------- move_to_output_buffer ------------------------ *)

\* lines 207-213: the thread's ELEMENT_PER_BLOCK entries of the block's
\* slice of block_partition_sizes
LoadHisto(b, t) ==
  [i \in 0..(ELEMENT_PER_BLOCK - 1) |->
    IF ELEMENT_PER_BLOCK * t + i < num_partitions
      THEN block_partition_sizes[b + (ELEMENT_PER_BLOCK * t + i) * grid_size]
      ELSE 0]

ScatterLoad(b, t) ==
  /\ running.op = "scatter"
  /\ th[<<b, t>>].pc = "load"
  /\ th' = [th EXCEPT ![<<b, t>>] = [@ EXCEPT !.temp = LoadHisto(b, t), !.pc = "write"]]
  /\ UNCHANGED <<argVars, hashVars, hostVars, stream, running, shm, fault, routingVars, output_buf>>

\* item j of the blocked arrangement the block-wide scan runs over
ScanItem(b, j) == th[<<b, j \div ELEMENT_PER_BLOCK>>].temp[j % ELEMENT_PER_BLOCK]

RECURSIVE InclusiveSum(_, _)
\* cub::BlockScan::InclusiveSum: the sum of the items 0..j
InclusiveSum(b, j) ==
  IF j < 0 THEN 0 ELSE InclusiveSum(b, j - 1) + ScanItem(b, j)

\* the words of partition_offset_shared thread t writes (lines 221-229)
SharedWrites(t) ==
  (IF t = 0 THEN {0} ELSE {}) \cup
  {ELEMENT_PER_BLOCK * t + i + 1 : i \in
     {i \in 0..(ELEMENT_PER_BLOCK - 1) : ELEMENT_PER_BLOCK * t + i < num_partitions}}

\* lines 217-236: the block-wide inclusive scan, then the thread's words of
\* partition_offset_shared and of partition_offset_global
ScatterOffsets(b, t) ==
  /\ running.op = "scatter"
  /\ th[<<b, t>>].pc = "write"
  /\ Arrived(b, {"load"})
  /\ shm' = [shm EXCEPT
       ![b].pos = [k \in 0..num_partitions |->
                    IF k \in SharedWrites(t)
                      THEN (IF k = 0 THEN 0 ELSE InclusiveSum(b, k - 1))
                      ELSE @[k]],
       ![b].written = @ \cup SharedWrites(t),
       ![b].glob = [p \in Partitions |->
                     IF p \in Strided(t, BLOCK_SIZE, num_partitions)
                       THEN scanned_block_partition_sizes[p * grid_size + b]
                       ELSE @[p]]]
  /\ th' = [th EXCEPT ![<<b, t>>] = [@ EXCEPT !.pc = "stage"]]
  /\ UNCHANGED <<argVars, hashVars, hostVars, stream, running, fault, routingVars, output_buf>>

\* rows of partition p the block holds, by partition_offset_shared
nelements_partition(b, p) == shm[b].pos[p + 1] - shm[b].pos[p]

RECURSIVE NextCopy(_, _, _, _)
\* the next (ipartition, row_offset) of thread t's copy loops (lines 260-273)
\* at or after (p, k) that has a cell to copy; ipartition = num_partitions
\* when the loops are over
NextCopy(b, t, p, k) ==
  IF p >= num_partitions THEN <<num_partitions, 0>>
  ELSE IF k < nelements_partition(b, p) THEN <<p, k>>
  ELSE NextCopy(b, t, p + BLOCK_SIZE \div nthreads_partition, t % nthreads_partition)

\* the thread's state at the cell (p, k) of the copy loops
AtCopy(s, b, t, p, k) ==
  LET w == NextCopy(b, t, p, k)
  IN IF w[1] >= num_partitions THEN [s EXCEPT !.pc = "done"]
     ELSE [s EXCEPT !.pc = "copy", !.part = w[1], !.off = w[2]]

\* lines 240-253: one row of the grid-stride loop is staged in block_output;
\* after its last row the thread reaches the copy loops
ScatterStage(b, t) ==
  /\ running.op = "scatter"
  /\ th[<<b, t>>].pc = "stage"
  /\ Arrived(b, {"load", "write"})
  /\ LET s == th[<<b, t>>]
         row_number == s.row
         next == row_number + BLOCK_SIZE * grid_size
         first == AtCopy(s, b, t, t \div nthreads_partition, t % nthreads_partition)
     IN IF row_number < input.num_rows
          THEN LET ipartition == row_partition_numbers[row_number]
                   at == shm[b].pos[ipartition] + row_partition_offset[row_number]
               IN /\ IF at \in 0..(rows_per_block - 1)
                       THEN /\ shm' = [shm EXCEPT ![b].block_output[at] =
                                        input.cols[running.col].data[row_number]]
                            /\ fault' = fault
                       ELSE /\ shm' = shm
                            /\ fault' = TRUE
                  /\ th' = [th EXCEPT ![<<b, t>>] =
                             IF next < input.num_rows THEN [s EXCEPT !.row = next]
                             ELSE first]
          ELSE /\ th' = [th EXCEPT ![<<b, t>>] = first]
               /\ UNCHANGED <<shm, fault>>
  /\ UNCHANGED <<argVars, hashVars, hostVars, stream, running, routingVars, output_buf>>

\* lines 267-272: one cell goes from block_output to the output buffer
ScatterCopy(b, t) ==
  /\ running.op = "scatter"
  /\ th[<<b, t>>].pc = "copy"
  /\ Arrived(b, {"load", "write", "stage"})
  /\ LET s == th[<<b, t>>]
         ipartition == s.part
         row_offset == s.off
         from == shm[b].pos[ipartition] + row_offset
         to == shm[b].glob[ipartition] + row_offset
         cell == IF from \in 0..(rows_per_block - 1)
                   THEN shm[b].block_output[from] ELSE Uninit
     IN /\ IF to \in Rows
             THEN output_buf' = [output_buf EXCEPT ![running.col][to] = cell]
             ELSE output_buf' = output_buf
        /\ fault' = (fault \/ to \notin Rows \/ from \notin 0..(rows_per_block - 1))
        /\ th' = [th EXCEPT ![<<b, t>>] =
                   AtCopy(s, b, t, ipartition, row_offset + nthreads_partition)]
  /\ UNCHANGED <<argVars, hashVars, hostVars, stream, running, shm, routingVars>>

(* --------------------------- specification ---------------------------- *)

Next ==
  \/ HashPartition
  \/ BuildRouting
  \/ CopyOffsetsToHost
  \/ ScatterColumns
  \/ DeviceStart
  \/ DeviceBlockScan
  \/ DeviceGlobalScan
  \/ KernelEnd
  \/ \E id \in ThreadIds : HistInit(id[1], id[2])
  \/ \E id \in ThreadIds : HistRow(id[1], id[2])
  \/ \E id \in ThreadIds : HistFlush(id[1], id[2])
  \/ \E id \in ThreadIds : ScatterLoad(id[1], id[2])
  \/ \E id \in ThreadIds : ScatterOffsets(id[1], id[2])
  \/ \E id \in ThreadIds : ScatterStage(id[1], id[2])
  \/ \E id \in ThreadIds : ScatterCopy(id[1], id[2])

Spec == Init /\ [][Next]_vars

(* ---------------------------- detail::hash ---------------------------- *)

\* the seed vectors a caller passes: none, or one, two or three seeds
SeedChoices == {<< >>, <<3>>, <<3, 5>>, <<3, 5, 7>>}

\* the columns of the input in order: detail::hash hashes all of them
AllColumns == [k \in 1..NumCols |-> k - 1]

RECURSIVE SeededHashColumns(_, _, _)
\* the hash of the first k columns of row i, each element hash mixed with the
\* seed of its column
SeededHashColumns(nullable, k, i) ==
  LET mixed == (element_hasher(nullable, AllColumns[k], i) + 31 * initial_hash[k]) % HashSpace
  IN IF k = 1 THEN mixed
     ELSE hash_combine(SeededHashColumns(nullable, k - 1, i), mixed)

row_hasher_initial_values(nullable, i) == SeededHashColumns(nullable, NumCols, i)

\* make_numeric_column(data_type(INT32), input.num_rows()): the cells are
\* not initialised
HashColumn ==
  [made |-> TRUE, type |-> "INT32", size |-> input.num_rows, has_mask |-> FALSE,
   data |-> [i \in Rows |-> Uninit]]

\* the thrust::tabulate detail::hash enqueues
TabulateWork ==
  << [op |-> "tabulate", seeded |-> initial_hash # << >>,
      nullable |-> has_nulls(AllColumns)] >>

\* detail::hash (lines 473-520): the output column is made first, a table
\* with no column or no row returns it at once, then the seeds are checked
\* and the row hashes are enqueued on the stream
Hash ==
  /\ pc = "call"
  /\ pc' = "done"
  /\ allocated' = allocated \cup {Buffer("hash_output", Uninit)}
  /\ IF NumCols = 0 \/ input.num_rows = 0
       THEN /\ result' = "hashed"
            /\ hash_output' = HashColumn
            /\ UNCHANGED <<error, stream, launched>>
       ELSE IF initial_hash # << >> /\ Len(initial_hash) # NumCols
       THEN /\ result' = "error"
            /\ error' = "Expected same size of initial hash values as number of columns"
            /\ hash_output' = [made |-> FALSE]
            /\ UNCHANGED <<stream, launched>>
       ELSE /\ result' = "hashed"
            /\ hash_output' = HashColumn
            /\ stream' = stream \o TabulateWork
            /\ launched' = launched \o TabulateWork
            /\ error' = error
  /\ UNCHANGED <<argVars, initial_hash, has_nulls_path, grid_size, partition_offsets,
                 output_cols, routing_live, kernelVars, routingVars, output_buf>>

\* thrust::tabulate over the output column: cell i gets the hash of row i
DeviceTabulate ==
  /\ running.op = "tabulate"
  /\ hash_output' = [hash_output EXCEPT !.data =
       [i \in Rows |->
         IF running.seeded THEN row_hasher_initial_values(running.nullable, i)
         ELSE HashColumns(running.nullable, AllColumns, NumCols, i)]]
  /\ running' = [op |-> "idle"]
  /\ UNCHANGED <<argVars, initial_hash, hostVars, stream, th, shm, fault,
                 routingVars, output_buf>>

\* a call of detail::hash: the table and the seeds are drawn, the arguments
\* of hash_partition are not used
HashInit ==
  /\ input \in InputTables
  /\ initial_hash \in SeedChoices
  /\ columns_to_hash = << >>
  /\ num_partitions = 0
  /\ hash_output = [made |-> FALSE]
  /\ pc = "call"
  /\ result = "none"
  /\ error = "none"
  /\ has_nulls_path = FALSE
  /\ grid_size = 0
  /\ partition_offsets = << >>
  /\ output_cols = [c \in Cols |-> [made |-> FALSE]]
  /\ allocated = {}
  /\ routing_live = FALSE
  /\ launched = << >>
  /\ stream = << >>
  /\ running = [op |-> "idle"]
  /\ th = << >>
  /\ shm = << >>
  /\ fault = FALSE
  /\ row_partition_numbers = << >>
  /\ row_partition_offset = << >>
  /\ block_partition_sizes = << >>
  /\ scanned_block_partition_sizes = << >>
  /\ global_partition_sizes = << >>
  /\ output_buf = [c \in Cols |-> << >>]

HashNext ==
  \/ Hash
  \/ DeviceStart
  \/ DeviceTabulate

HashSpec == HashInit /\ [][HashNext]_vars

(* ------------------------- observed quantities ------------------------ *)

\* the host has returned or thrown and the device has done all its work
Finished == pc = "done" /\ StreamDrained

\* hash_partition returned a partitioned table and the device has filled it
Succeeded == Finished /\ result = "ok"

InRow(i) == [c \in Cols |-> input.cols[c].data[i]]

OutRow(a) == [c \in Cols |-> output_buf[c][a]]

\* the partition of input row i under the partitioner the orchestrator picks
InputPartition(i) == RowPartition(is_power_two(num_partitions), i)

PartitionSize(p) == Cardinality({i \in Rows : InputPartition(i) = p})

\* the output positions of partition p by the returned partition_offsets
SliceStart(p) == partition_offsets[p + 1]

SliceEnd(p) == IF p = num_partitions - 1 THEN input.num_rows ELSE partition_offsets[p + 2]

Slice(p) == {a \in Rows : SliceStart(p) <= a /\ a < SliceEnd(p)}

\* how often input row i occurs among the output positions A
Copies(i, A) == Cardinality({a \in A : OutRow(a) = InRow(i)})

Twins(i) == {j \in Rows : InRow(j) = InRow(i)}

\* rows i and j agree in every key column: equal cells, or both null on the
\* null-aware path
KeysEqual(i, j) ==
  \A k \in 1..Len(columns_to_hash) :
    LET column == input.cols[columns_to_hash[k]]
        null(r) == has_nulls_path /\ column.has_mask /\ ~column.valid[r]
    IN \/ null(i) /\ null(j)
       \/ ~null(i) /\ ~null(j) /\ column.data[i] = column.data[j]

IsPermutation == \A i \in Rows : Copies(i, Rows) = Cardinality(Twins(i))

SlicesExact ==
  \A p \in Partitions :
    /\ \A a \in Slice(p) : \E i \in Rows : InRow(i) = OutRow(a) /\ InputPartition(i) = p
    /\ \A i \in Rows : InputPartition(i) = p =>
         /\ Copies(i, Slice(p)) = Cardinality(Twins(i))
         /\ Copies(i, Rows \ Slice(p)) = 0

CoLocated(i, j) ==
  \E p \in Partitions :
    /\ Copies(i, Slice(p)) > 0
    /\ Copies(j, Slice(p)) > 0
    /\ Copies(i, Rows \ Slice(p)) = 0
    /\ Copies(j, Rows \ Slice(p)) = 0

\* the exclusive prefix sum of block b's slice of block_partition_sizes
BlockPrefix(b, k) ==
  SumTo([q \in Partitions |-> block_partition_sizes[q * grid_size + b]], k)

\* some thread of block b has passed the barrier before the staging loop
StagingBegun(b) ==
  \E t \in Threads :
    \/ th[<<b, t>>].pc \in {"copy", "done"}
    \/ th[<<b, t>>].pc = "stage" /\ th[<<b, t>>].row # t + b * BLOCK_SIZE

\* the arguments have no row to partition, no partition to fill or no key
\* column to hash
DegenerateCall ==
  input.num_rows = 0 \/ num_partitions <= 0 \/ columns_to_hash = << >>

\* hash_partition has just returned: the scatter kernels it enqueued are all
\* still waiting on the stream
AtReturn ==
  /\ pc = "done"
  /\ Cardinality({k \in 1..Len(stream) : stream[k].op = "scatter"}) =
       Cardinality({k \in 1..Len(launched) : launched[k].op = "scatter"})

(* ------------------------------ claims -------------------------------- *)

\* C1: after hash_partition completes on a table without null masks, with
\* rows, a key column and N >= 1, the multiset of output rows equals the
\* multiset of input rows, whatever the interleaving of threads and blocks.
C1_OutputIsPermutation == Succeeded => IsPermutation

\* The scatter is a permutation when the block-wide prefix sum covers all
\* partitions (N <= ELEMENT_PER_BLOCK * BLOCK_SIZE).
PermutationWithinCapacity ==
  (Succeeded /\ num_partitions <= ScanCapacity) => (IsPermutation /\ ~fault)

\* C2: after hash_partition completes, the output rows at positions
\* [partition_offsets[p], partition_offsets[p+1]) (R for the last p) are
\* exactly the input rows whose hash maps to p: none of another partition
\* inside the slice, none of p outside it.
C2_SlicesHoldTheirPartition == Succeeded => SlicesExact

SlicesWithinCapacity ==
  (Succeeded /\ num_partitions <= ScanCapacity) => SlicesExact

\* C3: two input rows with equal key cells (or null in the same key columns
\* on the null-aware path) are placed in the same output partition, for
\* every N >= 1 and both partitioners.
C3_EqualKeysCoLocated ==
  Succeeded => \A i, j \in Rows : (i # j /\ KeysEqual(i, j)) => CoLocated(i, j)

CoLocationWithinCapacity ==
  (Succeeded /\ num_partitions <= ScanCapacity) =>
    \A i, j \in Rows : (i # j /\ KeysEqual(i, j)) => CoLocated(i, j)

\* C4: the returned partition_offsets has length N, starts at 0, is
\* non-decreasing, and partition_offsets[p] + size(p) is the next offset, or
\* R for the last partition.
C4_OffsetsClosed ==
  (result = "ok" /\ AtReturn) =>
    /\ Len(partition_offsets) = num_partitions
    /\ partition_offsets[1] = 0
    /\ \A p \in Partitions :
         /\ SliceStart(p) <= SliceEnd(p)
         /\ SliceStart(p) + PartitionSize(p) = SliceEnd(p)

\* a returned offsets vector with a partition boundary strictly inside the
\* table and an empty partition
C4_Witness ==
  /\ result = "ok"
  /\ num_partitions >= 3
  /\ \E p \in Partitions : 0 < SliceStart(p) /\ SliceStart(p) < input.num_rows
  /\ \E p \in Partitions : PartitionSize(p) = 0
  /\ grid_size = 2

\* C5: for every N >= 1, in every scatter block all N+1 words of
\* partition_offset_shared are written before a row is staged, and hold the
\* exclusive prefix sum of the block's slice of block_partition_sizes.
C5_SharedOffsetsComplete ==
  running.op = "scatter" =>
    \A b \in Blocks : StagingBegun(b) =>
      /\ shm[b].written = 0..num_partitions
      /\ \A k \in 0..num_partitions : shm[b].pos[k] = BlockPrefix(b, k)

SharedOffsetsWithinCapacity ==
  (running.op = "scatter" /\ num_partitions <= ScanCapacity) =>
    \A b \in Blocks : StagingBegun(b) =>
      /\ shm[b].written = 0..num_partitions
      /\ \A k \in 0..num_partitions : shm[b].pos[k] = BlockPrefix(b, k)

HasNullMask == \E c \in Cols : input.cols[c].has_mask

NothingReturned ==
  /\ \A c \in Cols : ~output_cols[c].made
  /\ partition_offsets = << >>

\* C6 as stated: if any input column (key or not) has a null mask, the
\* operation fails with an error and returns neither table nor offsets.
C6_NullMaskAlwaysFails ==
  (pc = "done" /\ HasNullMask) => (result = "error" /\ NothingReturned)

\* C6, amended: if any input column has a null mask and the call is not one
\* the early return answers (R > 0, N > 0, a key column), the operation fails
\* with an error and returns neither table nor offsets.
C6_NullMaskFails ==
  (pc = "done" /\ HasNullMask /\ ~DegenerateCall) =>
    (result = "error" /\ NothingReturned)

\* the dispatcher has rejected the null mask of a column that is not a key
C6_Witness ==
  /\ pc = "done"
  /\ result = "error"
  /\ error = "null input column unsupported"
  /\ columns_to_hash = <<0>>
  /\ input.cols[1].has_mask
  /\ ~input.cols[0].has_mask

AllNull(c) ==
  input.cols[c].has_mask /\ \A i \in Rows : ~input.cols[c].valid[i]

\* C7: on the null-aware path, with one key column entirely null and N = 3,
\* hash_partition completes and all R rows are in one partition: one
\* partition of size R, two of size 0.
C7_AllNullKeyCompletes ==
  ( /\ pc = "done"
    /\ ~DegenerateCall
    /\ has_nulls_path
    /\ num_partitions = 3
    /\ \E k \in 1..Len(columns_to_hash) : AllNull(columns_to_hash[k]) )
  => /\ result = "ok"
     /\ Len(partition_offsets) = 3
     /\ \E p \in Partitions :
          /\ SliceEnd(p) - SliceStart(p) = input.num_rows
          /\ \A q \in Partitions \ {p} : SliceEnd(q) - SliceStart(q) = 0

\* C8: with a key column of a non-fixed-width type the error is raised
\* before any device work: nothing allocated, nothing launched.
C8_UnsupportedKeyRejectedFirst ==
  ( /\ pc = "done"
    /\ ~DegenerateCall
    /\ \E k \in 1..Len(columns_to_hash) :
         ~is_fixed_width(input.cols[columns_to_hash[k]].type) )
  => /\ result = "error"
     /\ error = "non-fixed width types unsupported"
     /\ allocated = {}
     /\ launched = << >>

\* C9: with R = 0, N <= 0 or no key column, hash_partition returns an
\* empty-like copy of the input (same column types, no rows) and an empty
\* partition_offsets, allocates no routing table and launches nothing.
C9_EarlyReturn ==
  (DegenerateCall /\ pc # "call") =>
    /\ pc = "done"
    /\ result = "empty"
    /\ \A c \in Cols :
         /\ output_cols[c].made
         /\ output_cols[c].size = 0
         /\ output_cols[c].type = input.cols[c].type
    /\ partition_offsets = << >>
    /\ allocated = {}
    /\ launched = << >>
    /\ stream = << >>
    /\ running.op = "idle"

\* the early return taken for a table with rows and a positive N, because
\* no key column was named
C9_Witness ==
  /\ pc = "done"
  /\ result = "empty"
  /\ input.num_rows > 0
  /\ num_partitions > 0
  /\ columns_to_hash = << >>

Returned == pc = "done" /\ result \in {"ok", "empty"}

SameSchema ==
  \A c \in Cols :
    /\ output_cols[c].made
    /\ output_cols[c].type = input.cols[c].type
    /\ ~output_cols[c].has_mask

\* C10 as stated: whenever hash_partition returns, the output table has
\* exactly R rows, as many columns, the same column types and no null mask.
C10_RowCountAlwaysKept ==
  Returned => /\ SameSchema
              /\ \A c \in Cols : output_cols[c].size = input.num_rows

\* C10, amended: whenever hash_partition returns, the output table has as
\* many columns as the input, the same column types and no null mask; it has
\* exactly R rows unless N <= 0 or no key column was named, and no rows then.
C10_RowCountKept ==
  Returned =>
    /\ SameSchema
    /\ \A c \in Cols :
         output_cols[c].size =
           IF num_partitions <= 0 \/ Len(columns_to_hash) = 0 THEN 0 ELSE input.num_rows
    /\ result = "ok" => \A c \in Cols : DOMAIN output_buf[c] = Rows

\* a partitioned table of two blocks' rows has been returned
C10_Witness ==
  /\ Returned
  /\ result = "ok"
  /\ input.num_rows > rows_per_block
  /\ \A c \in Cols : output_cols[c].size = input.num_rows

\* device work of kind op has been enqueued / is waiting or running / is over
Enqueued(op) == \E k \in 1..Len(launched) : launched[k].op = op

Pending(op) == running.op = op \/ \E k \in 1..Len(stream) : stream[k].op = op

Completed(op) == Enqueued(op) /\ ~Pending(op)

C12_PowerOfTwoEquivalence ==
  (num_partitions >= 1 /\ is_power_two(num_partitions)) =>
    /\ pc = "call" =>
         \A h \in 0..(HashSpace - 1) :
           bitwise_partitioner(num_partitions, h) = modulo_partitioner(num_partitions, h)
    /\ Completed("hist") =>
         \A i \in Rows :
           row_partition_numbers[i] =
             modulo_partitioner(num_partitions, row_hasher(has_nulls_path, i))

\* the histogram kernel has run with the bitwise partitioner for N = 4 and
\* has stored a partition other than 0 for a hash wider than the mask
C12_Witness ==
  /\ Completed("hist")
  /\ num_partitions = 4
  /\ launched[1].bitwise
  /\ \E i \in Rows :
       /\ row_hasher(has_nulls_path, i) >= num_partitions
       /\ row_partition_numbers[i] # 0

\* the rows the threads of block b visit in the grid-stride loop
BlockRows(b) ==
  {i \in Rows : \E t \in Threads :
     i \in Strided(t + b * BLOCK_SIZE, BLOCK_SIZE * grid_size, input.num_rows)}

BlockOf(i) == CHOOSE b \in Blocks : i \in BlockRows(b)

\* the rows of block b the partitioner sends to partition p
BlockPartitionRows(b, p) == {i \in BlockRows(b) : InputPartition(i) = p}

\* C14: after the histogram kernel, under every interleaving of the atomic
\* post-increments, for each block b and partition p the row_partition_offset
\* values of b's rows of p are pairwise distinct and are exactly
\* 0 .. block_partition_sizes[p * B + b] - 1.  (Looked at whenever the device
\* is between two operations.)
C14_LocalOffsetsDense ==
  (Completed("hist") /\ running.op = "idle") =>
    \A b \in Blocks, p \in Partitions :
      LET rows == {i \in BlockRows(b) : row_partition_numbers[i] = p}
      IN /\ \A i, j \in rows : i # j => row_partition_offset[i] # row_partition_offset[j]
         /\ {row_partition_offset[i] : i \in rows} =
              0..(block_partition_sizes[p * grid_size + b] - 1)
         /\ \A i \in rows :
              row_partition_offset[i] < block_partition_sizes[p * grid_size + b]

\* two rows of one block and one partition, visited by different threads,
\* the row with the higher index having drawn the lower offset
C14_Witness ==
  /\ Completed("hist")
  /\ \E b \in Blocks : \E i, j \in BlockRows(b) :
       /\ i < j
       /\ (j - i) % BLOCK_SIZE # 0
       /\ row_partition_numbers[i] = row_partition_numbers[j]
       /\ row_partition_offset[j] < row_partition_offset[i]

\* C15: after the histogram kernel, for every interleaving of threads and
\* block flushes, every row is counted once: global_partition_sizes[p] is the
\* sum over the blocks of block_partition_sizes[p * B + b], which is the
\* number of rows of partition p, and the global sizes add up to R.
C15_EveryRowCountedOnce ==
  (Completed("hist") /\ Pending("scan_global")) =>
    /\ \A p \in Partitions :
         /\ \A b \in Blocks :
              block_partition_sizes[p * grid_size + b] = Cardinality(BlockPartitionRows(b, p))
         /\ SumTo([b \in Blocks |-> block_partition_sizes[p * grid_size + b]], grid_size)
              = global_partition_sizes[p]
         /\ global_partition_sizes[p] = PartitionSize(p)
    /\ SumTo(global_partition_sizes, num_partitions) = input.num_rows

\* the kernel has finished a grid of two blocks that both hold rows of one
\* partition, and the global sizes are not scanned yet
C15_Witness ==
  /\ Completed("hist")
  /\ Pending("scan_global")
  /\ grid_size = 2
  /\ num_partitions >= 3
  /\ \E p \in Partitions :
       /\ block_partition_sizes[p * grid_size] > 0
       /\ block_partition_sizes[p * grid_size + 1] > 0
       /\ global_partition_sizes[p] >= 2

\* thread t of block b has incremented a bucket of the shared histogram
Incremented(b, t) ==
  LET s == th[<<b, t>>]
  IN /\ t + b * BLOCK_SIZE < input.num_rows
     /\ \/ s.pc \in {"flush", "done"}
        \/ s.pc = "rows" /\ s.row # t + b * BLOCK_SIZE

\* thread t of block b has read a bucket and flushed it
Flushed(b, t) ==
  LET s == th[<<b, t>>]
  IN /\ t < num_partitions
     /\ \/ s.pc = "done"
        \/ s.pc = "flush" /\ s.part # t

\* C16: in each block of the histogram kernel every bucket of the shared
\* histogram is zeroed before any thread increments a bucket, and every
\* increment of the block has happened before any thread reads a bucket to
\* flush it.
C16_HistogramPhasesOrdered ==
  running.op = "hist" =>
    \A b \in Blocks :
      /\ (\E t \in Threads : Incremented(b, t)) =>
           /\ \A t \in Threads : th[<<b, t>>].pc # "init"
           /\ \A p \in Partitions : shm[b].sizes[p] >= 0
      /\ (\E t \in Threads : Flushed(b, t)) =>
           /\ \A t \in Threads : th[<<b, t>>].pc \notin {"init", "rows"}
           /\ \A p \in Partitions :
                shm[b].sizes[p] = Cardinality(BlockPartitionRows(b, p))

\* block 0 is flushing a histogram of at least two rows, one thread having
\* flushed a bucket and another not yet, while block 1 still zeroes its own
C16_Witness ==
  /\ running.op = "hist"
  /\ grid_size = 2
  /\ \E t \in Threads : Flushed(0, t)
  /\ \E t \in Threads : th[<<0, t>>].pc = "flush" /\ th[<<0, t>>].part = t
  /\ \E p \in Partitions : shm[0].sizes[p] >= 2
  /\ \E t \in Threads : th[<<1, t>>].pc = "init"

\* C17: after the scan of block_partition_sizes, for every partition p and
\* block b, scanned_block_partition_sizes[p * B + b] is the number of rows of
\* partitions < p plus the number of rows of p in blocks < b; hence the entry
\* of block 0 is partition_offsets[p].  (Looked at whenever the device is
\* between two operations.)
C17_BlockScanIsPrefix ==
  (Completed("scan_block") /\ running.op = "idle") =>
    /\ \A p \in Partitions, b \in Blocks :
         scanned_block_partition_sizes[p * grid_size + b] =
           Cardinality({i \in Rows : InputPartition(i) < p}) +
           Cardinality({i \in Rows : InputPartition(i) = p /\ BlockOf(i) < b})
    /\ (pc \in {"scatter", "done"} /\ result # "error") =>
         \A p \in Partitions :
           scanned_block_partition_sizes[p * grid_size] = partition_offsets[p + 1]

\* the offsets have been copied for a grid of two blocks where block 1 has an
\* entry made of rows of lower partitions and of rows of block 0
C17_Witness ==
  /\ Completed("scan_block")
  /\ pc = "scatter"
  /\ grid_size = 2
  /\ \E p \in Partitions :
       /\ partition_offsets[p + 1] > 0
       /\ scanned_block_partition_sizes[p * grid_size + 1] > partition_offsets[p + 1]

\* every thread of block b has written its words of partition_offset_shared
\* and partition_offset_global
OffsetsWritten(b) == \A t \in Threads : th[<<b, t>>].pc \notin {"load", "write"}

\* the output addresses the copy loops of block b write for partition p
CopyAddresses(b, p) ==
  {shm[b].glob[p] + k : k \in 0..(nelements_partition(b, p) - 1)}

PartitionStart(p) == Cardinality({i \in Rows : InputPartition(i) < p})

ScatterAddressesExact ==
  /\ \A b1, b2 \in Blocks, p1, p2 \in Partitions :
       <<b1, p1>> # <<b2, p2>> => CopyAddresses(b1, p1) \cap CopyAddresses(b2, p2) = {}
  /\ UNION {CopyAddresses(b, p) : b \in Blocks, p \in Partitions} = Rows
  /\ \A p \in Partitions :
       UNION {CopyAddresses(b, p) : b \in Blocks} =
         PartitionStart(p)..(PartitionStart(p) + PartitionSize(p) - 1)

\* C18: in the scatter of one column the output addresses written across the
\* blocks are pairwise distinct, every output cell of [0, R) is written, and
\* the addresses of partition p are the contiguous range of its size that
\* starts at its offset.
C18_ScatterAddressesPartition ==
  /\ (running.op = "scatter" /\ \A b \in Blocks : OffsetsWritten(b)) =>
       ScatterAddressesExact
  /\ Succeeded => \A c \in Cols, a \in Rows : output_buf[c][a] # Uninit

ScatterAddressesWithinCapacity ==
  num_partitions <= ScanCapacity =>
    /\ (running.op = "scatter" /\ \A b \in Blocks : OffsetsWritten(b)) =>
         ScatterAddressesExact
    /\ Succeeded => \A c \in Cols, a \in Rows : output_buf[c][a] # Uninit

\* the scatter kernel has just started: no thread has read
\* block_partition_sizes or scanned_block_partition_sizes yet
ScatterStarts == \A id \in ThreadIds : th[id].pc = "load"

\* C19: the histogram kernel has completed before either scan starts, and
\* both scans have completed before a scatter kernel starts: a scan reads the
\* final histograms, a scatter kernel the final histograms and the final scan.
C19_StreamOrdered ==
  /\ (\/ running.op \in {"scan_block", "scan_global"}
      \/ Completed("scan_block")
      \/ Completed("scan_global")) => Completed("hist")
  /\ running.op \in {"scan_block", "scan_global"} =>
       \A p \in Partitions, b \in Blocks :
         block_partition_sizes[p * grid_size + b] = Cardinality(BlockPartitionRows(b, p))
  /\ (running.op = "scatter" \/ Completed("scatter")) =>
       /\ Completed("hist")
       /\ Completed("scan_block")
       /\ Completed("scan_global")
  /\ (running.op = "scatter" /\ ScatterStarts) =>
       /\ \A p \in Partitions, b \in Blocks :
            block_partition_sizes[p * grid_size + b] = Cardinality(BlockPartitionRows(b, p))
       /\ \A k \in DOMAIN scanned_block_partition_sizes :
            scanned_block_partition_sizes[k] = SumTo(block_partition_sizes, k)

\* the scatter kernel of the second column stages rows of a grid of two
\* blocks
C19_Witness ==
  /\ running.op = "scatter"
  /\ running.col = 1
  /\ grid_size = 2
  /\ num_partitions >= 2
  /\ \E id \in ThreadIds : th[id].pc = "stage" /\ th[id].row # id[2] + id[1] * BLOCK_SIZE

\* thread t of block b has copied a cell from block_output to the output
HasCopied(b, t) ==
  LET s == th[<<b, t>>]
      first == NextCopy(b, t, t \div nthreads_partition, t % nthreads_partition)
  IN /\ first[1] < num_partitions
     /\ \/ s.pc = "done"
        \/ s.pc = "copy" /\ <<s.part, s.off>> # first

\* every thread of block b has staged all of its rows
AllStaged(b) == \A t \in Threads : th[<<b, t>>].pc \notin {"load", "write", "stage"}

\* the cells of block_output the copy loops of block b read
CopyReads(b) ==
  UNION {{shm[b].pos[p] + k : k \in 0..(nelements_partition(b, p) - 1)} : p \in Partitions}

ScatterPhasesOrdered ==
  \A b \in Blocks :
    /\ StagingBegun(b) => OffsetsWritten(b)
    /\ (\E t \in Threads : HasCopied(b, t)) => AllStaged(b)
    /\ AllStaged(b) =>
         \A at \in CopyReads(b) :
           /\ at \in 0..(rows_per_block - 1)
           /\ \E i \in BlockRows(b) :
                shm[b].block_output[at] = input.cols[running.col].data[i]

\* C20: in each scatter block no thread reads partition_offset_shared or
\* partition_offset_global before all threads have written them, no thread
\* copies a cell out of the staging buffer before all threads have staged
\* their rows, and so every staged cell the copy loops read holds the value
\* of an input row of the block.
C20_ScatterPhasesOrdered == running.op = "scatter" => ScatterPhasesOrdered

ScatterPhasesWithinCapacity ==
  (running.op = "scatter" /\ num_partitions <= ScanCapacity) => ScatterPhasesOrdered


\* a step of a per-column launch of move_to_output_buffer leaves the routing
\* tables and the input buffers as they are
ScatterFrame ==
  running.op = "scatter" => UNCHANGED <<routingVars, input>>

\* every output position holds one input row in all its columns, or no column
\* wrote it: the columns were moved by one row-to-position mapping
SameMapping ==
  \A a \in Rows :
    \/ \A c \in Cols : output_buf[c][a] = Uninit
    \/ \E i \in Rows : OutRow(a) = InRow(i)

\* C21: the per-column scatter launches are independent: a scatter kernel
\* never writes row_partition, row_local_offset, block_histogram, block_scan
\* or the input, so every column is scattered with the same row-to-position
\* mapping, whatever the interleaving of the launches.
C21_ScatterLaunchesIndependent ==
  /\ [][ScatterFrame]_vars
  /\ [](Succeeded => SameMapping)

ScatterMappingWithinCapacity ==
  (Succeeded /\ num_partitions <= ScanCapacity) => SameMapping


\* the positive powers of two a partition count can be
PowersOfTwo == {2 ^ k : k \in 0..HashBits}

\* C22: the orchestrator selects the bitwise partitioner exactly when N is a
\* power of two and the modulo partitioner otherwise; a bitwise_partitioner
\* is constructed only with a positive power of two, so its constructor
\* assertion holds, and N <= 0 never reaches the choice.
C22_BitmaskOnlyForPowersOfTwo ==
  /\ \A k \in 1..Len(launched) : launched[k].op = "hist" =>
       /\ num_partitions >= 1
       /\ launched[k].bitwise = (num_partitions \in PowersOfTwo)
       /\ launched[k].bitwise => is_power_two(num_partitions)
  /\ running.op = "hist" => running.bitwise = (num_partitions \in PowersOfTwo)
  /\ is_power_two(0)

\* the histogram kernel has run with the bitwise partitioner for N = 1, the
\* power of two with the empty mask, and has put a row in partition 0
C22_Witness ==
  /\ Completed("hist")
  /\ num_partitions = 1
  /\ launched[1].bitwise
  /\ \E i \in Rows : row_partition_numbers[i] = 0


\* C23: for every unsigned hash value and every N >= 1 both partitioners give
\* a partition index in [0, N), the conversions between the unsigned hash and
\* the signed divisor or mask included, so the histogram kernel stores an
\* index in [0, N) for every row and its accesses to the N-entry histograms
\* are in bounds.
C23_PartitionIndexInRange ==
  /\ (pc = "call" /\ num_partitions >= 1) =>
       \A h \in 0..(HashSpace - 1) :
         /\ modulo_partitioner(num_partitions, h) \in 0..(num_partitions - 1)
         /\ bitwise_partitioner(num_partitions, h) \in 0..(num_partitions - 1)
  /\ running.op = "hist" =>
       /\ ~fault
       /\ \A i \in Rows : row_partition_numbers[i] \in 0..(num_partitions - 1)

\* the histogram kernel has run with the modulo partitioner on a row whose
\* hash has its top bit set, and has stored a partition other than 0 for it
C23_Witness ==
  /\ Completed("hist")
  /\ ~launched[1].bitwise
  /\ ~fault
  /\ \E i \in Rows :
       /\ row_hasher(has_nulls_path, i) >= HashSpace \div 2
       /\ row_partition_numbers[i] = row_hasher(has_nulls_path, i) % num_partitions
       /\ row_partition_numbers[i] > 0


\* the index in block_output at which block b stages row i
StagingIndex(b, i) ==
  shm[b].pos[row_partition_numbers[i]] + row_partition_offset[i]

StagingExact ==
  \A b \in Blocks :
    /\ Cardinality(BlockRows(b)) <= rows_per_block
    /\ OffsetsWritten(b) =>
         \A i \in BlockRows(b) :
           /\ StagingIndex(b, i) \in 0..(rows_per_block - 1)
           /\ \A j \in BlockRows(b) : j # i => StagingIndex(b, j) # StagingIndex(b, i)

\* C24: every block handles at most BLOCK_SIZE * ROWS_PER_THREAD rows, so
\* for every row the staging index partition_offset_shared[p] +
\* row_local_offset[row] is below BLOCK_SIZE * ROWS_PER_THREAD, and the
\* staging indices of distinct rows of one block are distinct.
C24_StagingWithinBuffer == running.op = "scatter" => StagingExact

\* the staging offsets of the partitions 0..ScanCapacity are written words
StagingWithinCapacity ==
  (running.op = "scatter" /\ num_partitions <= ScanCapacity + 1) => StagingExact


\* the thread is in its grid-stride loop over the rows, or before it, at a
\* row of the table
AtRow(id, pcs) == th[id].pc \in pcs /\ th[id].row < input.num_rows

\* the block whose grid-stride loop reaches row i, in closed form
HomeBlock(i) == (i % (BLOCK_SIZE * grid_size)) \div BLOCK_SIZE

\* C25: block assignment is consistent between the two kernels: the block
\* that counts row i in the histogram kernel is the block that stages row i
\* in every scatter kernel, so row_local_offset[i] is applied to the slice of
\* block_histogram / block_scan it was drawn from.
C25_BlockAssignmentConsistent ==
  /\ (pc = "memcpy" /\ running.op = "idle") =>
       \A i \in Rows, b \in Blocks : i \in BlockRows(b) <=> b = HomeBlock(i)
  /\ running.op = "hist" =>
       \A id \in ThreadIds :
         AtRow(id, {"init", "rows"}) => HomeBlock(th[id].row) = id[1]
  /\ running.op = "scatter" =>
       \A id \in ThreadIds :
         /\ AtRow(id, {"load", "write", "stage"}) => HomeBlock(th[id].row) = id[1]
         /\ (AtRow(id, {"stage"}) /\ StagingBegun(id[1])
               /\ row_partition_numbers[th[id].row] <= ScanCapacity) =>
              shm[id[1]].pos[row_partition_numbers[th[id].row]] =
                BlockPrefix(HomeBlock(th[id].row), row_partition_numbers[th[id].row])

\* with two blocks, thread 0 of block 0 has staged its first row and is at
\* the row one grid stride further, which block 0 counted too
C25_Witness ==
  /\ running.op = "scatter"
  /\ grid_size = 2
  /\ th[<<0, 0>>].pc = "stage"
  /\ th[<<0, 0>>].row = BLOCK_SIZE * grid_size
  /\ th[<<0, 0>>].row < input.num_rows
  /\ row_partition_offset[th[<<0, 0>>].row] > 0


\* the operation the device executes reads or writes a routing table in its
\* next steps: the histogram kernel and the scans throughout, a scatter
\* kernel until its threads have staged their rows
UsesRoutingTables ==
  \/ running.op \in {"hist", "scan_block", "scan_global"}
  \/ /\ running.op = "scatter"
     /\ \E id \in ThreadIds : th[id].pc \in {"load", "write", "stage"}

\* C26: no kernel enqueued by hash_partition reads or writes a routing table
\* after it has been released; when the orchestrator returns and releases
\* the routing tables, every scatter kernel that reads them has completed.
C26_RoutingTablesOutliveKernels ==
  /\ UsesRoutingTables => routing_live
  /\ (pc = "done" /\ Enqueued("scatter")) => ~Pending("scatter")

\* the kernels that write the routing tables do run while the tables live
RoutingWritersWithinLifetime ==
  running.op \in {"hist", "scan_block", "scan_global"} => routing_live


\* how often the row v occurs in the output slice of partition p, and among
\* the input rows the partitioner sends to p
CountInSlice(v, p) == Cardinality({a \in Slice(p) : OutRow(a) = v})

CountInInput(v, p) ==
  Cardinality({i \in Rows : InputPartition(i) = p /\ InRow(i) = v})

\* what is returned is the function of the arguments alone that the
\* partitioner defines: the offsets, and the multiset of rows of each slice
DeterminedByArguments ==
  /\ \A p \in Partitions : partition_offsets[p + 1] = PartitionStart(p)
  /\ \A p \in Partitions :
       \A v \in {OutRow(a) : a \in Slice(p)} \cup {InRow(i) : i \in Rows} :
         CountInSlice(v, p) = CountInInput(v, p)

\* C27: schedule independence: for fixed input, key set and N, executions
\* that differ only in the interleaving of threads and blocks return the
\* same partition_offsets and the same multiset of rows in each partition.
\* Stated over single executions: every execution returns the offsets and
\* the per-partition multisets that the arguments determine.
C27_ScheduleIndependent == Succeeded => DeterminedByArguments

ScheduleIndependentWithinCapacity ==
  (Succeeded /\ num_partitions <= ScanCapacity) => DeterminedByArguments

\* the returned offsets are the same under every schedule, for every N
OffsetsScheduleIndependent ==
  Succeeded => \A p \in Partitions : partition_offsets[p + 1] = PartitionStart(p)

\* the seed vector is not empty and not of the length of the column list
SeedMismatch == initial_hash # << >> /\ Len(initial_hash) # NumCols

\* C13: hash(input_table, seeds) fails with an error whenever seeds is not
\* empty and its length differs from the number of columns, for every input
\* table, one with zero rows included; no column is returned then.
C13_SeedMismatchFails ==
  (pc = "done" /\ SeedMismatch) => (result = "error" /\ ~hash_output.made)

\* The seed check is reached for a table with rows.
SeedMismatchFailsWithRows ==
  (pc = "done" /\ SeedMismatch /\ input.num_rows > 0) =>
    (result = "error" /\ ~hash_output.made /\ launched = << >>)

====
